---- MODULE Spec2Model ----
(***************************************************************************)
(* Model of src/main.py: the Win+D low-level keyboard hook (WinDHook), the *)
(* single-monitor toggle (Controller) and the hook thread's lifecycle.     *)
(*                                                                         *)
(* The desktop (cursor position, top-level windows, the outcome of each    *)
(* OS call) is the environment: every operation draws what the OS answers  *)
(* from small sets.  Python's None is the empty sequence and an index i is *)
(* <<i>>, so that None never equals an integer.                            *)
(***************************************************************************)
EXTENDS Integers, Sequences, FiniteSets, TLC

VARIABLES
    monitors,       \* Controller.monitors: the snapshot of get_monitors()
    allowed,        \* Controller.allowed
    toggled,        \* Controller.toggled   (phase: FALSE = Idle, TRUE = Minimized)
    minimized,      \* Controller.minimized (minimized_set)
    win_down,       \* WinDHook._win_down
    suppress_d_up,  \* WinDHook._suppress_d_up
    hook,           \* WinDHook.hook: None or <<handle>>
    thread_id,      \* WinDHook.thread_id: None or <<id>>
    thread,         \* WinDHook.thread: 0 = None, n = the n-th Thread object
    pc,             \* where the thread of WinDHook.thread stands in run()
    quitPosted,     \* a WM_QUIT is pending in that thread's message queue
    life,           \* what start() and stop() have reported so far
    obs,            \* what the last operation did (its inputs, OS calls, result)
    captured,       \* the windows of the minimize calls not yet followed by a restore
    hist,           \* history of the key events seen so far
    installed,      \* the hook handles registered with the OS and not yet unhooked
    probe,          \* the last monitor lookup: its arguments and its result
    frame,          \* where the hook thread stands inside a Win+D callback
    inflight        \* executions of toggle_desktop_single_monitor entered, not left

ctrlVars == <<monitors, allowed, toggled, minimized>>
keyVars  == <<win_down, suppress_d_up>>
lifeVars == <<hook, thread_id, thread, pc, quitPosted, life>>
stepVars == <<frame, inflight>>
vars     == <<monitors, allowed, toggled, minimized, win_down, suppress_d_up,
              hook, thread_id, thread, pc, quitPosted, life, obs, captured, hist,
              installed, probe, frame, inflight>>

-----------------------------------------------------------------------------
(* Bounds *)

NumWindows == 2     \* window handles 1..NumWindows exist on the desktop
MaxRepeat  == 2     \* suppressed secondary-key downs counted per release
MaxStarts  == 2     \* Thread objects start() may create

-----------------------------------------------------------------------------
(* Program constants *)

WM_KEYDOWN    == 256
WM_KEYUP      == 257
WM_SYSKEYDOWN == 260
WM_SYSKEYUP   == 261
VK_LWIN == 91
VK_RWIN == 92
VK_D    == 68
VK_E    == VK_D + 1 \* some key that is neither Win nor D
SW_SHOWMINIMIZED == 2
SW_SHOWNORMAL    == SW_SHOWMINIMIZED - 1   \* a show state other than minimized

None == <<>>
Some(x) == <<x>>

-----------------------------------------------------------------------------
(* Monitor helpers *)

Rect(l, t, r, b) == <<l, t, r, b>>

\* point_in_rect with closed bounds (<= right, <= bottom)
point_in_rect_closed(x, y, rect) ==
    /\ rect[1] <= x /\ x <= rect[3]
    /\ rect[2] <= y /\ y <= rect[4]

point_in_rect(x, y, rect) ==
    /\ rect[1] <= x /\ x < rect[3]
    /\ rect[2] <= y /\ y < rect[4]

Min(S) == CHOOSE m \in S : \A n \in S : m <= n

\* first monitor, in snapshot order, whose rectangle holds the point; 0-based
monitor_at_point(mons, x, y) ==
    LET hits == {i \in 1..Len(mons) : point_in_rect(x, y, mons[i].rect)}
    IN  IF hits = {} THEN None ELSE Some(Min(hits) - 1)

get_cursor_monitor_idx(mons, cur) == monitor_at_point(mons, cur[1], cur[2])

M0 == [handle |-> 1, rect |-> Rect(0, 0, 4, 2)]
M1 == [handle |-> 2, rect |-> Rect(4, 0, 8, 2)]

\* what get_monitors() can return
Layouts == {<<M0, M1>>, <<M1, M0>>, <<M0>>}

\* what GetCursorPos() can return: inside M0, on the M0/M1 edge (in M1), on
\* M1's right edge (in no monitor)
CursorPoints == {<<1, 1>>, <<4, 1>>, <<8, 1>>}

-----------------------------------------------------------------------------
(* Window helpers *)

Win(v, c, tl, rok, rc, pok, sc) ==
    [visible |-> v, cls |-> c, tool |-> tl, rectOk |-> rok, rect |-> rc,
     placeOk |-> pok, showCmd |-> sc]

\* plain application windows: shown, centred on M0 or on M1
PlainKinds ==
    { Win(TRUE,  "App",           FALSE, TRUE,  Rect(0, 0, 2, 2), TRUE,  SW_SHOWNORMAL),
      Win(TRUE,  "App",           FALSE, TRUE,  Rect(5, 0, 8, 2), TRUE,  SW_SHOWNORMAL) }

\* the other kinds of top-level window: centred on the M0/M1 edge, minimized,
\* tool window, shell classes, hidden, GetWindowRect raising,
\* GetWindowPlacement raising
OddKinds ==
    { Win(TRUE,  "App",           FALSE, TRUE,  Rect(3, 0, 6, 2), TRUE,  SW_SHOWNORMAL),
      Win(TRUE,  "App",           FALSE, TRUE,  Rect(0, 0, 2, 2), TRUE,  SW_SHOWMINIMIZED),
      Win(TRUE,  "App",           TRUE,  TRUE,  Rect(0, 0, 2, 2), TRUE,  SW_SHOWNORMAL),
      Win(TRUE,  "Progman",       FALSE, TRUE,  Rect(0, 0, 4, 2), TRUE,  SW_SHOWNORMAL),
      Win(TRUE,  "Shell_TrayWnd", FALSE, TRUE,  Rect(4, 1, 8, 2), TRUE,  SW_SHOWNORMAL),
      Win(FALSE, "App",           FALSE, TRUE,  Rect(0, 0, 2, 2), TRUE,  SW_SHOWNORMAL),
      Win(TRUE,  "App",           FALSE, FALSE, Rect(0, 0, 2, 2), TRUE,  SW_SHOWNORMAL),
      Win(TRUE,  "App",           FALSE, TRUE,  Rect(0, 0, 2, 2), FALSE, SW_SHOWNORMAL) }

Hwnds == 1..NumWindows

Range(s) == {s[i] : i \in 1..Len(s)}

\* sequences of distinct handles: the orders EnumWindows can report
RECURSIVE Orders(_)
Orders(S) ==
    IF S = {} THEN {<<>>}
    ELSE UNION {{<<h>> \o s : s \in Orders(S \ {h})} : h \in S}

\* the assignments of a kind to each handle of H, at most one of them odd
KindMaps(H) ==
    [H -> PlainKinds] \cup
    UNION {{[h \in H |-> IF h = x THEN k ELSE p[h]] : p \in [H -> PlainKinds]} :
           <<x, k>> \in H \X OddKinds}

\* a desktop: the windows EnumWindows reports, in its order, each with what
\* the window queries answer for it
DesktopsOf(H) ==
    UNION {{[i \in 1..Len(o) |-> [hwnd |-> o[i], w |-> k[o[i]]]] :
              k \in KindMaps(Range(o))} :
           o \in UNION {Orders(S) : S \in SUBSET H}}

Desktops == DesktopsOf(Hwnds)

\* the desktops of the key-sequence specification: at most one window
KeyDesktops == DesktopsOf({1})

is_real_window(w) ==
    IF ~w.visible THEN FALSE
    ELSE IF w.cls \in {"Progman", "Shell_TrayWnd"} THEN FALSE
    ELSE IF w.tool THEN FALSE
    ELSE TRUE

get_window_monitor_idx(mons, w) ==
    IF ~w.rectOk THEN None
    ELSE LET cx == (w.rect[1] + w.rect[3]) \div 2
             cy == (w.rect[2] + w.rect[4]) \div 2
         IN  monitor_at_point(mons, cx, cy)

\* enum_cb without the test of line 183
enum_cb_keeps_minimized(mons, idx, w) ==
    /\ is_real_window(w)
    /\ get_window_monitor_idx(mons, w) = Some(idx)
    /\ w.placeOk

\* the EnumWindows callback cb: TRUE when it appends the window
enum_cb(mons, idx, w) ==
    /\ is_real_window(w)
    /\ get_window_monitor_idx(mons, w) = Some(idx)
    /\ w.placeOk                          \* a raising query is swallowed
    /\ w.showCmd # SW_SHOWMINIMIZED

enum_windows_on_monitor(mons, idx, desk) ==
    LET sel == SelectSeq(desk, LAMBDA e : enum_cb(mons, idx, e.w))
    IN  [i \in 1..Len(sel) |-> sel[i].hwnd]

Reverse(s) == [i \in 1..Len(s) |-> s[Len(s) + 1 - i]]

-----------------------------------------------------------------------------
(* Controller *)

\* what one run of toggle_desktop_single_monitor did: whether it raised, the
\* cursor position and desktop it read (None when not read), the ShowWindow
\* calls it issued in order, and the toggled/minimized it left
Outcome(r, cur, desk, calls, tg, mn) ==
    [raised |-> r, cursor |-> cur, desk |-> desk, calls |-> calls,
     toggled |-> tg, minimized |-> mn]

\* toggle_minimize without the try/except of lines 232-235: the ShowWindow
\* call that raises ends the toggle
toggle_minimize_aborting(mons, alw, cur, desk, failAt) ==
    LET wins == enum_windows_on_monitor(mons, alw, desk)
        n    == IF failAt = 0 THEN Len(wins) ELSE failAt
    IN  Outcome(failAt # 0, Some(cur), Some(desk),
                [i \in 1..n |->
                    [op |-> "minimize", hwnd |-> wins[i], ok |-> i # failAt]],
                failAt = 0, wins)

\* lines 228-236: capture and minimize; the ShowWindow call numbered failAt
\* raises and is swallowed
toggle_minimize(mons, alw, cur, desk, failAt) ==
    LET wins == enum_windows_on_monitor(mons, alw, desk)
    IN  Outcome(FALSE, Some(cur), Some(desk),
                [i \in 1..Len(wins) |->
                    [op |-> "minimize", hwnd |-> wins[i], ok |-> i # failAt]],
                TRUE, wins)

\* toggle_restore without line 243: the set is kept after the restore
toggle_restore_keeps_set(cur, failAt) ==
    LET rev == Reverse(minimized)
    IN  Outcome(FALSE, Some(cur), None,
                [i \in 1..Len(rev) |->
                    [op |-> "restore", hwnd |-> rev[i], ok |-> i # failAt]],
                FALSE, minimized)

\* toggle_restore without reversed() at line 238
toggle_restore_forward(cur, failAt) ==
    Outcome(FALSE, Some(cur), None,
            [i \in 1..Len(minimized) |->
                [op |-> "restore", hwnd |-> minimized[i], ok |-> i # failAt]],
            FALSE, <<>>)

\* lines 237-244: restore in reverse and clear
toggle_restore(cur, failAt) ==
    LET rev == Reverse(minimized)
    IN  Outcome(FALSE, Some(cur), None,
                [i \in 1..Len(rev) |->
                    [op |-> "restore", hwnd |-> rev[i], ok |-> i # failAt]],
                FALSE, <<>>)

\* lines 225-226 falling through to the restore loop: the windows are
\* restored, phase and set are kept
toggle_noop_restores(cur) ==
    Outcome(FALSE, Some(cur), None,
            [i \in 1..Len(minimized) |->
                [op |-> "restore", hwnd |-> Reverse(minimized)[i], ok |-> TRUE]],
            toggled, minimized)

\* lines 225-226: the cursor is not on the allowed monitor
toggle_noop(cur) == Outcome(FALSE, Some(cur), None, <<>>, toggled, minimized)

\* GetCursorPos (line 137) or EnumWindows (line 188) raised: nothing assigned
toggle_raised(cur) == Outcome(TRUE, cur, None, <<>>, toggled, minimized)

\* the toggle without the early return of lines 225-226
cursor_check_skipped(mons, alw, cur) == TRUE

\* line 225: the test that lets the toggle run
cursor_on_allowed(mons, alw, cur) == get_cursor_monitor_idx(mons, cur) = Some(alw)

\* lines 220-244 once monitors and allowed have been read: the outcomes
\* the call can have when GetCursorPos answers cur and the desktop is desk
toggle_outcomes(mons, alw, cur, desk) ==
    IF ~cursor_on_allowed(mons, alw, cur)
    THEN {toggle_noop(cur)}
    ELSE IF ~toggled
    THEN {toggle_raised(Some(cur))} \cup
         {toggle_minimize(mons, alw, cur, desk, failAt) :
            failAt \in 0..Len(enum_windows_on_monitor(mons, alw, desk))}
    ELSE {toggle_restore(cur, failAt) : failAt \in 0..Len(minimized)}

\* the desktops toggle_desktop_single_monitor can tell apart in this state:
\* it enumerates the windows only on the minimize path
desks_read(mons, alw, cur, desks) ==
    IF cursor_on_allowed(mons, alw, cur) /\ ~toggled THEN desks ELSE {<<>>}

-----------------------------------------------------------------------------
(* Observations *)

NoOutcome == Outcome(FALSE, None, None, <<>>, FALSE, <<>>)

\* op: the operation; for a hook callback its arguments (the edge is what
\* is_down / is_up make of wParam), its return value ("pass" = the result of
\* CallNextHookEx, "suppress" = 1, "raise" = an exception left the callback),
\* how many times it called on_win_d, and that call's outcome
Obs(op, nCode, edge, vk, ret, trig, out) ==
    [op |-> op, nCode |-> nCode, edge |-> edge, vk |-> vk, ret |-> ret,
     trig |-> trig, out |-> out]

Plain(op) == Obs(op, 0, "none", 0, "none", 0, NoOutcome)

-----------------------------------------------------------------------------
(* WinDHook._callback *)

NCodes  == {-1, 0}
WParams == {WM_KEYDOWN, WM_KEYUP, WM_SYSKEYDOWN, WM_SYSKEYUP}
VKeys   == {VK_LWIN, VK_RWIN, VK_D, VK_E}

is_down(wParam) == wParam \in {WM_KEYDOWN, WM_SYSKEYDOWN}
is_up(wParam)   == wParam \in {WM_KEYUP, WM_SYSKEYUP}

Edge(wParam) ==
    IF is_down(wParam) THEN "down" ELSE IF is_up(wParam) THEN "up" ELSE "none"

\* _callback swallowing any key pressed while Win is held (no vk == VK_D
\* at line 338)
callback_case_any_key(nCode, wParam, vk) ==
    IF nCode < 0 THEN "skip"
    ELSE IF vk \in {VK_LWIN, VK_RWIN} THEN "win"
    ELSE IF win_down /\ is_down(wParam) THEN "win_d"
    ELSE IF suppress_d_up /\ vk = VK_D /\ is_up(wParam) THEN "d_up"
    ELSE "other"

\* _callback ending the suppression at the up of any key (no vk == VK_D at
\* line 347)
callback_case_any_up(nCode, wParam, vk) ==
    IF nCode < 0 THEN "skip"
    ELSE IF vk \in {VK_LWIN, VK_RWIN} THEN "win"
    ELSE IF win_down /\ vk = VK_D /\ is_down(wParam) THEN "win_d"
    ELSE IF suppress_d_up /\ is_up(wParam) THEN "d_up"
    ELSE "other"

\* _callback swallowing every D up (no self._suppress_d_up at line 347)
callback_case_every_d_up(nCode, wParam, vk) ==
    IF nCode < 0 THEN "skip"
    ELSE IF vk \in {VK_LWIN, VK_RWIN} THEN "win"
    ELSE IF win_down /\ vk = VK_D /\ is_down(wParam) THEN "win_d"
    ELSE IF vk = VK_D /\ is_up(wParam) THEN "d_up"
    ELSE "other"

\* _callback firing on every D down (no self._win_down at line 338)
callback_case_every_d_down(nCode, wParam, vk) ==
    IF nCode < 0 THEN "skip"
    ELSE IF vk \in {VK_LWIN, VK_RWIN} THEN "win"
    ELSE IF vk = VK_D /\ is_down(wParam) THEN "win_d"
    ELSE IF suppress_d_up /\ vk = VK_D /\ is_up(wParam) THEN "d_up"
    ELSE "other"

\* which return statement of _callback the event reaches
callback_case(nCode, wParam, vk) ==
    IF nCode < 0 THEN "skip"                                        \* line 321
    ELSE IF vk \in {VK_LWIN, VK_RWIN} THEN "win"                    \* line 335
    ELSE IF win_down /\ vk = VK_D /\ is_down(wParam) THEN "win_d"   \* line 344
    ELSE IF suppress_d_up /\ vk = VK_D /\ is_up(wParam) THEN "d_up" \* line 349
    ELSE "other"                                                    \* line 351

\* on_win_d() called without the try/except of lines 339-342
on_win_d_unguarded(out) == ~out.raised

\* line 344 swallowing the D down only when the toggle issued a call
win_d_return_if_acted(out) == IF out.calls = <<>> THEN "pass" ELSE "suppress"

\* lines 339-342: on_win_d() runs inside try/except Exception: whatever the
\* outcome, control reaches line 343
on_win_d_guarded(out) == TRUE

\* line 344: what the Win+D branch returns after on_win_d's outcome
win_d_return(out) == "suppress"

\* lines 338-344 after on_win_d had outcome out
callback_after_win_d(nCode, wParam, vk, out) ==
    /\ toggled' = out.toggled
    /\ minimized' = out.minimized
    /\ IF on_win_d_guarded(out)
       THEN /\ suppress_d_up' = TRUE
            /\ obs' = Obs("key", nCode, Edge(wParam), vk, win_d_return(out), 1, out)
       ELSE /\ suppress_d_up' = suppress_d_up
            /\ obs' = Obs("key", nCode, Edge(wParam), vk, "raise", 1, out)

\* lines 338-344: Win held and D pressed; on_win_d is
\* Controller.toggle_desktop_single_monitor (lines 215-244), which raises at
\* GetCursorPos or goes on with the cursor position it read
callback_win_d(nCode, wParam, vk, desks) ==
    /\ \/ callback_after_win_d(nCode, wParam, vk, toggle_raised(None))
       \/ \E cur \in CursorPoints :
            \E desk \in desks_read(monitors, allowed, cur, desks) :
              \E out \in toggle_outcomes(monitors, allowed, cur, desk) :
                callback_after_win_d(nCode, wParam, vk, out)
    /\ UNCHANGED <<monitors, allowed, win_down>>

\* one invocation of the hook procedure by the OS, on the hook thread while it
\* pumps messages
Callback(desks) ==
    /\ pc = "loop" /\ hook # None
    /\ \E nCode \in NCodes, wParam \in WParams, vk \in VKeys :
         LET c == callback_case(nCode, wParam, vk)
             passed == Obs("key", nCode, Edge(wParam), vk, "pass", 0, NoOutcome)
         IN  IF c = "skip"
             THEN /\ obs' = passed
                  /\ UNCHANGED <<ctrlVars, keyVars>>
             ELSE IF c = "win"
             THEN /\ win_down' = IF is_down(wParam) THEN TRUE
                                 ELSE IF is_up(wParam) THEN FALSE ELSE win_down
                  /\ obs' = passed
                  /\ UNCHANGED <<ctrlVars, suppress_d_up>>
             ELSE IF c = "win_d"
             THEN callback_win_d(nCode, wParam, vk, desks)
             ELSE IF c = "d_up"
             THEN /\ suppress_d_up' = FALSE
                  /\ obs' = Obs("key", nCode, Edge(wParam), vk, "suppress", 0, NoOutcome)
                  /\ UNCHANGED <<ctrlVars, win_down>>
             ELSE /\ obs' = passed
                  /\ UNCHANGED <<ctrlVars, keyVars>>
    /\ UNCHANGED lifeVars

-----------------------------------------------------------------------------
(* The Win+D branch of _callback step by step: the callback calls on_win_d,  *)
(* toggle_desktop_single_monitor reads monitors and allowed under the lock  *)
(* (one step: the lock makes lines 216-218 exclusive of set_allowed and     *)
(* refresh_monitors), releases it and goes on with the values it read.      *)

\* the hook thread is not inside a Win+D callback
FrameIdle == [pc |-> "idle", nCode |-> 0, wParam |-> 0, vk |-> 0,
              mons |-> <<>>, alw |-> 0]

\* a hook procedure that can be entered again before it has returned
hook_thread_reentrant == TRUE

\* lines 367-369: the hook procedure runs on the hook thread, called from its
\* message loop, so the next event is delivered once the callback in
\* progress has returned
hook_thread_free == frame.pc = "idle"

\* lines 319-339: an event that reaches the Win+D branch; on_win_d is called
callback_enter_win_d ==
    /\ pc = "loop" /\ hook # None
    /\ hook_thread_free
    /\ \E nCode \in NCodes, wParam \in WParams, vk \in VKeys :
         /\ callback_case(nCode, wParam, vk) = "win_d"
         /\ frame' = [pc |-> "read", nCode |-> nCode, wParam |-> wParam,
                      vk |-> vk, mons |-> <<>>, alw |-> 0]
    /\ inflight' = inflight + 1
    /\ obs' = Plain("on_win_d")
    /\ UNCHANGED <<ctrlVars, keyVars, lifeVars>>

\* lines 216-218: monitors and allowed are copied under the lock
toggle_read ==
    /\ frame.pc = "read"
    /\ frame' = [frame EXCEPT !.pc = "act", !.mons = monitors, !.alw = allowed]
    /\ obs' = Plain("toggle_read")
    /\ UNCHANGED <<ctrlVars, keyVars, lifeVars, inflight>>

\* lines 220-244 on the copies, outside the lock, then lines 343-344
toggle_act(desks) ==
    /\ frame.pc = "act"
    /\ \/ callback_after_win_d(frame.nCode, frame.wParam, frame.vk,
                               toggle_raised(None))
       \/ \E cur \in CursorPoints :
            \E desk \in desks_read(frame.mons, frame.alw, cur, desks) :
              \E out \in toggle_outcomes(frame.mons, frame.alw, cur, desk) :
                callback_after_win_d(frame.nCode, frame.wParam, frame.vk, out)
    /\ frame' = FrameIdle
    /\ inflight' = inflight - 1
    /\ UNCHANGED <<monitors, allowed, win_down, lifeVars>>

-----------------------------------------------------------------------------
(* Controller.set_allowed, Controller.refresh_monitors *)

Max(a, b) == IF a >= b THEN a ELSE b

\* the indices the tray menu and the settings window pass
SetAllowedArgs == {-1, 0, 1}

\* set_allowed dropping the windows still to be restored
set_allowed_forgets ==
    /\ \E idx \in SetAllowedArgs : allowed' = Max(0, idx)
    /\ minimized' = <<>>
    /\ obs' = Plain("set_allowed")
    /\ UNCHANGED <<monitors, toggled, keyVars, lifeVars>>

set_allowed ==
    /\ \E idx \in SetAllowedArgs : allowed' = Max(0, idx)
    /\ obs' = Plain("set_allowed")
    /\ UNCHANGED <<monitors, toggled, minimized, keyVars, lifeVars>>

refresh_monitors ==
    /\ \E l \in Layouts : monitors' = l
    /\ obs' = Plain("refresh_monitors")
    /\ UNCHANGED <<allowed, toggled, minimized, keyVars, lifeVars>>

-----------------------------------------------------------------------------
(* WinDHook.start, WinDHook.stop and the hook thread (start.run)           *)

\* start() without the test of line 354
thread_alive_unchecked == FALSE

\* Thread.is_alive() of self.thread
thread_alive == thread # 0 /\ pc \notin {"done", "failed"}

\* lines 353-377, as seen by the caller: returns at once when the thread is
\* alive, else creates and starts the next Thread; it has no path that
\* reports an error
start ==
    /\ IF thread_alive
       THEN UNCHANGED <<thread, pc, quitPosted>>
       ELSE /\ thread < MaxStarts
            /\ thread' = thread + 1
            /\ pc' = "setid"
            /\ quitPosted' = FALSE
    /\ life' = [startResult |-> "ok",
                stopCalled |-> IF thread_alive THEN life.stopCalled ELSE FALSE]
    /\ obs' = Plain("start")
    /\ UNCHANGED <<ctrlVars, keyVars, hook, thread_id>>

\* PostThreadMessageW(thread_id, WM_QUIT): queued when thread_id names the
\* running thread (taken to own a message queue as soon as it has an id),
\* lost when it names a thread that has ended
post_quit_delivered == thread_id = Some(thread) /\ pc \in {"install", "loop"}

\* lines 379-385
stop ==
    /\ quitPosted' = IF thread_id # None /\ post_quit_delivered
                     THEN TRUE ELSE quitPosted
    /\ life' = [life EXCEPT !.stopCalled = life.stopCalled \/ thread # 0]
    /\ obs' = Plain("stop")
    /\ UNCHANGED <<ctrlVars, keyVars, hook, thread_id, thread, pc>>

\* line 359
run_set_id ==
    /\ pc = "setid"
    /\ thread_id' = Some(thread)
    /\ pc' = "install"
    /\ obs' = Plain("run")
    /\ UNCHANGED <<ctrlVars, keyVars, hook, thread, quitPosted, life>>

\* lines 360-363: SetWindowsHookExW returns a handle or NULL; on NULL the
\* OSError ends the thread
run_install ==
    /\ pc = "install"
    /\ \E ok \in BOOLEAN :
         IF ok THEN hook' = Some(thread) /\ pc' = "loop"
               ELSE hook' = None /\ pc' = "failed"
    /\ obs' = Plain("run")
    /\ UNCHANGED <<ctrlVars, keyVars, thread_id, thread, quitPosted, life>>

\* lines 367-369: GetMessageW blocks until a message arrives and returns 0
\* for WM_QUIT
run_get_message ==
    /\ pc = "loop"
    /\ quitPosted
    /\ quitPosted' = FALSE
    /\ pc' = "cleanup"
    /\ obs' = Plain("run")
    /\ UNCHANGED <<ctrlVars, keyVars, hook, thread_id, thread, life>>

\* lines 371-374
run_cleanup ==
    /\ pc = "cleanup"
    /\ hook' = None
    /\ pc' = "done"
    /\ obs' = Plain("run")
    /\ UNCHANGED <<ctrlVars, keyVars, thread_id, thread, quitPosted, life>>

run == run_set_id \/ run_install \/ run_get_message \/ run_cleanup

-----------------------------------------------------------------------------
(* Specification of the running program: the hook is installed and its     *)
(* thread pumps messages; key events and configuration calls interleave.   *)

\* the allowed_monitor values load_config can return
ConfigAllowed == {-1, 0, 2}

InitController ==
    /\ monitors \in Layouts
    /\ allowed \in ConfigAllowed
    /\ toggled = FALSE
    /\ minimized = <<>>

InitHook ==
    /\ win_down = FALSE
    /\ suppress_d_up = FALSE
    /\ obs = Plain("init")
    /\ captured = <<>>

Hwnd(calls) == [i \in 1..Len(calls) |-> calls[i].hwnd]

\* the windows the controller asked the OS to minimize on its latest
\* Idle -> Minimized transition, in call order, until it goes back to Idle
CapturedNext ==
    IF ~toggled /\ toggled' THEN Hwnd(obs'.out.calls)
    ELSE IF toggled /\ ~toggled' THEN <<>>
    ELSE captured

\* history of the processed key events (nCode >= 0): which Win keys are
\* physically held, whether the previous event was a Win down, whether a Win
\* down was ever directly followed by a D down, whether a D down ever came
\* with a Win key held, whether on_win_d was ever called / an event ever
\* suppressed, the suppressed D downs since the last suppressed D up, whether
\* a D down processed with _win_down set has not yet been followed by a D up,
\* and the allowed index of the latest Idle -> Minimized transition
HistInit ==
    [lHeld |-> FALSE, rHeld |-> FALSE, prevModDown |-> FALSE,
     seenAdjacent |-> FALSE, seenHeldDown |-> FALSE,
     everTriggered |-> FALSE, everSuppressed |-> FALSE, pairDowns |-> 0,
     awaitingUp |-> FALSE, capAllowed |-> None]

HistNext(o) ==
    LET down  == o.edge = "down"
        up    == o.edge = "up"
        isMod == o.vk \in {VK_LWIN, VK_RWIN}
        supD  == o.ret = "suppress" /\ o.vk = VK_D
    IN  IF o.nCode < 0 THEN hist
        ELSE
        [lHeld |-> IF o.vk = VK_LWIN THEN down ELSE hist.lHeld,
         rHeld |-> IF o.vk = VK_RWIN THEN down ELSE hist.rHeld,
         prevModDown |-> isMod /\ down,
         seenAdjacent |-> hist.seenAdjacent
                            \/ (hist.prevModDown /\ o.vk = VK_D /\ down),
         seenHeldDown |-> hist.seenHeldDown
                            \/ ((hist.lHeld \/ hist.rHeld) /\ o.vk = VK_D /\ down),
         everTriggered |-> hist.everTriggered \/ o.trig > 0,
         everSuppressed |-> hist.everSuppressed \/ o.ret = "suppress",
         pairDowns |-> IF supD /\ down THEN hist.pairDowns + 1
                       ELSE IF supD /\ up THEN 0
                       ELSE hist.pairDowns,
         awaitingUp |-> IF o.vk = VK_D /\ down /\ win_down THEN TRUE
                        ELSE IF o.vk = VK_D /\ up THEN FALSE
                        ELSE hist.awaitingUp,
         capAllowed |-> IF ~toggled /\ toggled' THEN Some(allowed)
                        ELSE hist.capAllowed]

\* no monitor lookup recorded yet
NoProbe == [kind |-> "none", mons |-> <<>>, rect |-> <<>>, point |-> <<>>,
            result |-> None, done |-> FALSE]

\* the hooks the OS holds: SetWindowsHookExW succeeding (line 361) adds its
\* handle, UnhookWindowsHookEx (line 373) removes the handle it is given
InstalledNext ==
    IF pc = "install" /\ pc' = "loop" THEN installed \cup {hook'[1]}
    ELSE IF pc = "cleanup" /\ hook # None THEN installed \ {hook[1]}
    ELSE installed

InitAux ==
    /\ probe = NoProbe
    /\ frame = FrameIdle
    /\ inflight = 0

\* after run_app's hook.start() and the thread's successful hook installation
InitRunning ==
    /\ hook = Some(1)
    /\ thread_id = Some(1)
    /\ thread = 1
    /\ pc = "loop"
    /\ quitPosted = FALSE
    /\ life = [startResult |-> "ok", stopCalled |-> FALSE]

Init ==
    /\ InitController /\ InitHook /\ InitRunning /\ hist = HistInit
    /\ installed = {hook[1]}
    /\ InitAux

KeyEvent ==
    /\ Callback(Desktops)
    /\ captured' = CapturedNext
    /\ UNCHANGED <<hist, installed, probe, stepVars>>

SetAllowed == set_allowed /\ UNCHANGED <<captured, hist, installed, probe, stepVars>>

RefreshMonitors ==
    refresh_monitors /\ UNCHANGED <<captured, hist, installed, probe, stepVars>>

Next == KeyEvent \/ SetAllowed \/ RefreshMonitors

Spec == Init /\ [][Next]_vars

-----------------------------------------------------------------------------
(* Specification of key sequences: the same callback, with the history of  *)
(* the key events recorded and a desktop of at most one window.            *)

TrackedKeyEvent ==
    /\ Callback(KeyDesktops)
    /\ captured' = CapturedNext
    /\ hist' = HistNext(obs')
    /\ hist'.pairDowns <= MaxRepeat
    /\ UNCHANGED <<installed, probe, stepVars>>

NextKeys == TrackedKeyEvent \/ SetAllowed \/ RefreshMonitors

SpecKeys == Init /\ [][NextKeys]_vars

-----------------------------------------------------------------------------
(* Specification of the interceptor's lifecycle, from construction: start, *)
(* stop and the hook thread's steps interleave with configuration calls.   *)
(* The OS schedules the hook thread, so its steps are weakly fair; nothing *)
(* obliges the application to call start or stop.                          *)

\* WinDHook.__init__
InitConstructed ==
    /\ hook = None
    /\ thread_id = None
    /\ thread = 0
    /\ pc = "none"
    /\ quitPosted = FALSE
    /\ life = [startResult |-> "none", stopCalled |-> FALSE]

InitLife ==
    /\ InitController /\ InitHook /\ InitConstructed /\ hist = HistInit
    /\ installed = {}
    /\ InitAux

Start == start /\ UNCHANGED <<captured, hist, installed, probe, stepVars>>

Stop == stop /\ UNCHANGED <<captured, hist, installed, probe, stepVars>>

RunThread ==
    /\ run
    /\ installed' = InstalledNext
    /\ UNCHANGED <<captured, hist, probe, stepVars>>

NextLife == Start \/ Stop \/ RunThread \/ SetAllowed \/ RefreshMonitors

SpecLife == InitLife /\ [][NextLife]_vars /\ WF_vars(RunThread)

-----------------------------------------------------------------------------
(* Specification of the Win+D callback step by step: the tray and settings  *)
(* threads call set_allowed and refresh_monitors while the hook thread is   *)
(* anywhere in its callback.                                                *)

\* an event that does not reach the Win+D branch: the whole callback
PlainKeyEvent ==
    /\ hook_thread_free
    /\ Callback(KeyDesktops)
    /\ obs'.trig = 0
    /\ UNCHANGED <<captured, hist, installed, probe, stepVars>>

EnterWinD ==
    callback_enter_win_d /\ UNCHANGED <<captured, hist, installed, probe>>

ToggleRead == toggle_read /\ UNCHANGED <<captured, hist, installed, probe>>

ToggleAct ==
    /\ toggle_act(KeyDesktops)
    /\ captured' = CapturedNext
    /\ UNCHANGED <<hist, installed, probe>>

NextSteps ==
    PlainKeyEvent \/ EnterWinD \/ ToggleRead \/ ToggleAct \/ SetAllowed
        \/ RefreshMonitors

SpecSteps == Init /\ [][NextSteps]_vars

-----------------------------------------------------------------------------
(* Specification of the monitor lookup: the arguments of one call of       *)
(* get_cursor_monitor_idx or get_window_monitor_idx are drawn from the      *)
(* snapshots and points below, and the step applies the function.          *)

\* monitors below M0, across the M0/M1 edge (overlapping both) and left of M0
\* (negative coordinates)
MBelow == [handle |-> 3, rect |-> Rect(0, 2, 4, 4)]
MOver  == [handle |-> 4, rect |-> Rect(2, 0, 6, 2)]
MLeft  == [handle |-> 5, rect |-> Rect(-4, 0, 0, 2)]

\* snapshots of up to three monitors, in every enumeration order
ProbeLayouts ==
    UNION {Orders(S) : S \in {T \in SUBSET {M0, M1, MBelow, MOver, MLeft} :
                                Cardinality(T) <= 3}}

\* every integer point from MLeft's left edge to M1's right edge and from
\* the top edge to MBelow's bottom edge, edges included
ProbePoints == (MLeft.rect[1]..M1.rect[3]) \X (M0.rect[2]..MBelow.rect[4])

\* window rectangles centred on each point: of even and of odd width
ProbeRects ==
    {Rect(p[1] - 1, p[2] - 1, p[1] + d, p[2] + d) :
        p \in ProbePoints, d \in {1, 2}}

ProbeInputs ==
    {[kind |-> "cursor", mons |-> l, rect |-> <<>>, point |-> p,
      result |-> None, done |-> FALSE] : l \in ProbeLayouts, p \in ProbePoints}
    \cup
    {[kind |-> "window", mons |-> l, rect |-> r, point |-> <<>>,
      result |-> None, done |-> FALSE] : l \in ProbeLayouts, r \in ProbeRects}

InitPoint ==
    /\ monitors = <<M0, M1>> /\ allowed = 0 /\ toggled = FALSE /\ minimized = <<>>
    /\ InitHook /\ InitRunning /\ hist = HistInit
    /\ installed = {hook[1]}
    /\ probe \in ProbeInputs
    /\ frame = FrameIdle
    /\ inflight = 0

\* get_cursor_monitor_idx(monitors) when GetCursorPos answers probe.point
LocateCursor ==
    /\ probe.kind = "cursor" /\ ~probe.done
    /\ probe' = [probe EXCEPT
                   !.result = get_cursor_monitor_idx(probe.mons, probe.point),
                   !.done = TRUE]
    /\ UNCHANGED <<ctrlVars, keyVars, lifeVars, obs, captured, hist, installed,
                   stepVars>>

\* get_window_monitor_idx(monitors, hwnd) when GetWindowRect answers probe.rect
LocateWindow ==
    /\ probe.kind = "window" /\ ~probe.done
    /\ probe' = [probe EXCEPT
                   !.result = get_window_monitor_idx(probe.mons,
                                Win(TRUE, "App", FALSE, TRUE, probe.rect, TRUE,
                                    SW_SHOWNORMAL)),
                   !.done = TRUE]
    /\ UNCHANGED <<ctrlVars, keyVars, lifeVars, obs, captured, hist, installed,
                   stepVars>>

NextPoint == LocateCursor \/ LocateWindow

SpecPoint == InitPoint /\ [][NextPoint]_vars

-----------------------------------------------------------------------------
(* Properties.  What the claims call eligible, centred on a monitor and    *)
(* on the allowed monitor is stated here from the window and monitor data,  *)
(* apart from the operators that model the code.                            *)

InRect(p, r) == r[1] <= p[1] /\ p[1] < r[3] /\ r[2] <= p[2] /\ p[2] < r[4]

\* the point lies on monitor number idx (0-based) of the snapshot
OnMonitor(p, idx) ==
    /\ idx \in 0..(Len(monitors) - 1)
    /\ InRect(p, monitors[idx + 1].rect)
    /\ \A j \in 1..idx : ~InRect(p, monitors[j].rect)

Centre(w) == <<(w.rect[1] + w.rect[3]) \div 2, (w.rect[2] + w.rect[4]) \div 2>>

\* visible, not a shell/desktop class, not a tool window
Eligible(w) == w.visible /\ w.cls \notin {"Progman", "Shell_TrayWnd"} /\ ~w.tool

\* the window answers its queries, is eligible, centred on the allowed
\* monitor and not minimized
ToCapture(w) ==
    /\ w.rectOk /\ w.placeOk
    /\ Eligible(w)
    /\ OnMonitor(Centre(w), allowed)
    /\ w.showCmd # SW_SHOWMINIMIZED

\* the step is a hook callback that called trigger(), which read the cursor
Triggered == obs'.op = "key" /\ obs'.trig = 1 /\ obs'.out.cursor # None

TriggeredOnAllowed == Triggered /\ OnMonitor(obs'.out.cursor[1], allowed)

\* subsequence of the handles of desk whose windows are to be captured
RECURSIVE Expected(_)
Expected(desk) ==
    IF desk = <<>> THEN <<>>
    ELSE (IF ToCapture(Head(desk).w) THEN <<Head(desk).hwnd>> ELSE <<>>)
         \o Expected(Tail(desk))

AllOp(calls, op) == \A i \in 1..Len(calls) : calls[i].op = op

\* C1: a trigger() in phase Idle with the cursor on the allowed monitor that
\* gets through the enumeration issues one minimize call for each window of
\* the desktop that is eligible, centred on the allowed monitor and not
\* already minimized, in enumeration order, issues no other call, stores
\* exactly that sequence as minimized_set and enters phase Minimized.
C1_MinimizeStep ==
    (TriggeredOnAllowed /\ ~toggled /\ ~obs'.out.raised) =>
        /\ obs'.out.desk # None
        /\ minimized' = Expected(obs'.out.desk[1])
        /\ Hwnd(obs'.out.calls) = minimized'
        /\ AllOp(obs'.out.calls, "minimize")
        /\ toggled'

C1_MinimizesExactlyEligible == [][C1_MinimizeStep]_vars

\* C1 witness: the desktop held a window that was captured and, enumerated
\* before it, an eligible window on the allowed monitor that was already
\* minimized and was left out.
C1_Witness ==
    /\ obs.op = "key" /\ obs.trig = 1 /\ toggled
    /\ obs.out.desk # None
    /\ Len(obs.out.desk[1]) = 2
    /\ obs.out.desk[1][1].w.showCmd = SW_SHOWMINIMIZED
    /\ Eligible(obs.out.desk[1][1].w)
    /\ OnMonitor(Centre(obs.out.desk[1][1].w), allowed)
    /\ minimized = <<obs.out.desk[1][2].hwnd>>
    /\ Len(obs.out.calls) = 1

\* C2: a trigger() that finds the cursor on another monitor than the allowed
\* one, or on none, leaves phase and minimized_set as they were and issues
\* no minimize or restore call, in either phase.
C2_OffMonitorStep ==
    (Triggered /\ ~OnMonitor(obs'.out.cursor[1], allowed)) =>
        /\ toggled' = toggled
        /\ minimized' = minimized
        /\ obs'.out.calls = <<>>

C2_OffMonitorIsNoop == [][C2_OffMonitorStep]_vars

\* C2 witness: phase Minimized with windows captured, trigger() just ran with
\* the cursor on no monitor.
C2_Witness ==
    /\ obs.op = "key" /\ obs.trig = 1 /\ obs.out.cursor # None
    /\ \A i \in 1..Len(monitors) : ~InRect(obs.out.cursor[1], monitors[i].rect)
    /\ toggled /\ minimized # <<>>

\* C3: a trigger() in phase Minimized with the cursor on the allowed monitor
\* issues restore calls for exactly the windows of the minimize calls of the
\* trigger() that entered the phase, in the reverse of their order, and
\* leaves phase Idle with minimized_set empty.
C3_RestoreStep ==
    (TriggeredOnAllowed /\ toggled) =>
        /\ Hwnd(obs'.out.calls) = Reverse(captured)
        /\ AllOp(obs'.out.calls, "restore")
        /\ ~toggled'
        /\ minimized' = <<>>

C3_RestoresInReverse == [][C3_RestoreStep]_vars

\* C3 witness: a restore of two windows has just run.
C3_Witness ==
    /\ obs.op = "key" /\ obs.trig = 1 /\ ~toggled
    /\ Len(obs.out.calls) = 2
    /\ AllOp(obs.out.calls, "restore")

KeyObserved == obs.op = "key"

\* C4: the hook passes every Win-key event, left or right, down or up, and
\* every event of a key other than Win and D, whatever the interceptor's
\* state, and calls trigger() for neither.
C4_ModifierAndOthersPass ==
    (KeyObserved /\ obs.vk # VK_D) => (obs.ret = "pass" /\ obs.trig = 0)

\* C4 witness: another key went down while Win was held and the release of D
\* was being suppressed, and was passed.
C4_Witness ==
    /\ KeyObserved /\ obs.nCode = 0 /\ obs.vk = VK_E /\ obs.edge = "down"
    /\ win_down /\ suppress_d_up

\* the callback just processed a D down with Win held
WinDObserved ==
    /\ KeyObserved /\ obs.nCode >= 0
    /\ obs.vk = VK_D /\ obs.edge = "down" /\ win_down

\* C7: a D down processed while _win_down is true calls trigger() exactly
\* once inside the callback, sets _suppress_d_up and is suppressed, also when
\* trigger() does nothing because the cursor is off the allowed monitor.
C7_WinDTriggersAndSuppresses ==
    WinDObserved => (obs.trig = 1 /\ obs.ret = "suppress" /\ suppress_d_up)

\* C7 witness: Win+D with the cursor off the allowed monitor.
C7_Witness ==
    /\ WinDObserved
    /\ obs.out.cursor # None
    /\ ~OnMonitor(obs.out.cursor[1], allowed)
    /\ obs.out.calls = <<>>

\* C9: when trigger() raises, the exception does not leave the callback: it
\* still returns 1 (the D down is suppressed) and _suppress_d_up is set, so
\* the next D up is handled as after any other Win+D.
C9_TriggerFaultSwallowed ==
    (KeyObserved /\ obs.trig = 1 /\ obs.out.raised) =>
        /\ obs.ret = "suppress"
        /\ suppress_d_up

\* C9 witness: trigger() raised in EnumWindows, after reading the cursor.
C9_Witness ==
    /\ KeyObserved /\ obs.trig = 1 /\ obs.out.raised
    /\ obs.out.cursor # None

\* the callback just processed an event of the D key
DProcessed == obs'.op = "key" /\ obs'.nCode >= 0 /\ obs'.vk = VK_D

C5_SuppressionStep ==
    DProcessed =>
        /\ obs'.edge = "up" => (obs'.ret = "suppress" <=> hist.pairDowns >= 1)
        /\ (obs'.edge = "down" /\ obs'.ret = "suppress") => (hist.lHeld \/ hist.rHeld)

C6_NothingWithoutAdjacentPair ==
    ~hist.seenAdjacent => (~hist.everTriggered /\ ~hist.everSuppressed)

\* C6 as amended: as long as no D down came while a Win key was held (a Win
\* down not yet followed by that key's up), trigger() was never called and
\* no event was suppressed.
C6_NothingWithoutHeldModifier ==
    ~hist.seenHeldDown => (~hist.everTriggered /\ ~hist.everSuppressed)

\* C6 witness: a D down was processed with no Win key held, and passed.
C6_Witness ==
    /\ KeyObserved /\ obs.nCode = 0 /\ obs.vk = VK_D /\ obs.edge = "down"
    /\ ~hist.seenHeldDown /\ ~win_down

\* C8: a hook installation that failed has been reported by start() as an
\* error.
C8_InstallFailureSurfaced == pc = "failed" => life.startResult = "error"

\* C10: once stop() has been called on a started interceptor, its thread
\* eventually leaves run() with the hook unregistered.
C10_StopLeadsToExit ==
    life.stopCalled ~> (pc \in {"done", "failed"} /\ hook = None)

\* the Thread object of self.thread has been started and has not ended
ThreadLive == thread # 0 /\ pc \notin {"done", "failed"}

C11_AtMostOneHook == Cardinality(installed) <= 1

C11_StartStep ==
    (obs'.op = "start" /\ ThreadLive) =>
        /\ thread' = thread /\ pc' = pc
        /\ hook' = hook /\ installed' = installed

\* C11: a start() made while the interceptor thread is alive creates no
\* thread and installs no hook, and over any sequence of start() and stop()
\* calls the OS holds at most one hook of the interceptor at any time.
C11_StartIdempotent == []C11_AtMostOneHook /\ [][C11_StartStep]_vars

\* C11 witness: after a stop and a restart, start() was called again while the
\* second thread was pumping messages with its hook installed.
C11_Witness ==
    /\ obs.op = "start" /\ thread = MaxStarts /\ pc = "loop"
    /\ installed = {hook[1]}

\* the point the lookup was made for: the cursor position or the window centre
ProbeTarget ==
    IF probe.kind = "cursor" THEN probe.point ELSE Centre([rect |-> probe.rect])

\* the monitors of the snapshot, by position, whose half-open rectangle holds
\* the target
ProbeHits == {i \in 1..Len(probe.mons) : InRect(ProbeTarget, probe.mons[i].rect)}

Disjoint(r, q) == r[3] <= q[1] \/ q[3] <= r[1] \/ r[4] <= q[2] \/ q[4] <= r[2]

NonOverlapping(mons) ==
    \A i, j \in 1..Len(mons) : i # j => Disjoint(mons[i].rect, mons[j].rect)

\* the point lies on the right or on the bottom edge of the rectangle
OnFarEdge(p, r) ==
    \/ p[1] = r[3] /\ r[2] <= p[2] /\ p[2] <= r[4]
    \/ p[2] = r[4] /\ r[1] <= p[1] /\ p[1] <= r[3]

\* C12: the monitor lookup uses half-open bounds: it answers none exactly
\* when no rectangle holds the point, else the first monitor in enumeration
\* order that holds it (also when rectangles overlap); in a snapshot without
\* overlaps at most one monitor holds the point and a point on a monitor's
\* right or bottom edge is never assigned to that monitor.
C12_HalfOpenFirstMatch ==
    probe.done =>
        /\ probe.result = None <=> ProbeHits = {}
        /\ ProbeHits # {} =>
              /\ probe.result[1] + 1 \in ProbeHits
              /\ \A j \in ProbeHits : probe.result[1] + 1 <= j
        /\ NonOverlapping(probe.mons) =>
              /\ Cardinality(ProbeHits) <= 1
              /\ \A i \in 1..Len(probe.mons) :
                    OnFarEdge(ProbeTarget, probe.mons[i].rect)
                        => probe.result # Some(i - 1)

\* C12 witness: a window centred exactly on M0's right edge, which is M1's
\* left edge, was looked up in the snapshot M0, M1 and assigned to M1.
C12_Witness ==
    /\ probe.done /\ probe.kind = "window"
    /\ probe.mons = <<M0, M1>>
    /\ ProbeTarget[1] = M0.rect[3]
    /\ probe.result = Some(1)

\* C13: when allowed has been changed since the windows were captured, the
\* next trigger() whose cursor check passes against the new allowed monitor
\* issues restore calls for exactly the windows captured for the old one, in
\* reverse, whatever monitor they are on, and returns to phase Idle with
\* minimized_set empty.
C13_RestoreAfterChangeStep ==
    (TriggeredOnAllowed /\ toggled /\ hist.capAllowed # Some(allowed)) =>
        /\ Hwnd(obs'.out.calls) = Reverse(captured)
        /\ AllOp(obs'.out.calls, "restore")
        /\ ~toggled'
        /\ minimized' = <<>>

C13_RestoresOldSetAfterChange == [][C13_RestoreAfterChangeStep]_vars

\* C13 witness: a window captured under one allowed index has just been
\* restored by a trigger() with the cursor on the monitor of another one.
C13_Witness ==
    /\ KeyObserved /\ obs.trig = 1 /\ ~toggled
    /\ Len(obs.out.calls) = 1 /\ AllOp(obs.out.calls, "restore")
    /\ hist.capAllowed # None /\ hist.capAllowed # Some(allowed)
    /\ obs.out.cursor # None /\ OnMonitor(obs.out.cursor[1], allowed)

\* C14: no set_allowed or refresh_monitors step is taken while a trigger()
\* stands between its read of monitors and allowed and its update of phase
\* and minimized_set.
C14_ConfigExcludedDuringTrigger ==
    obs.op \in {"set_allowed", "refresh_monitors"} => frame.pc # "act"

\* C19: at most one execution of trigger() is in flight at any time.
C19_OneTriggerInFlight ==
    /\ inflight <= 1
    /\ inflight = 1 <=> frame.pc # "idle"

\* C19 witness: a trigger() is in flight in phase Minimized, so after an
\* earlier one has completed, and a set_allowed has just run beside it.
C19_Witness ==
    /\ inflight = 1 /\ frame.pc = "act" /\ toggled
    /\ obs.op = "set_allowed"

\* the handles of s are windows of the desktop, in the desktop's order
InEnumOrder(s, desk) ==
    /\ \A i \in 1..Len(s) : \E k \in 1..Len(desk) : desk[k].hwnd = s[i]
    /\ \A i, j \in 1..Len(s) : \A k, l \in 1..Len(desk) :
          (i < j /\ desk[k].hwnd = s[i] /\ desk[l].hwnd = s[j]) => k < l

\* C15: after any sequence of trigger(), set_allowed() and
\* refresh_monitors() calls, minimized_set is non-empty only in phase
\* Minimized, and in phase Minimized it is the sequence of windows of the
\* minimize calls of the latest Idle -> Minimized transition, which is in
\* the order of the enumeration that transition read.
C15_MinimizedSetInvariant ==
    /\ minimized # <<>> => toggled
    /\ toggled => minimized = captured
    /\ (KeyObserved /\ obs.trig = 1 /\ toggled /\ obs.out.desk # None)
          => InEnumOrder(minimized, obs.out.desk[1])

\* C15 witness: two windows are captured and a refresh_monitors has run since.
C15_Witness ==
    /\ toggled /\ Len(minimized) = NumWindows
    /\ obs.op = "refresh_monitors"

\* C16: _suppress_d_up is true exactly from a detection (a D down processed
\* while _win_down is set) until the first D up processed after it: it is
\* false initially, no other event sets or clears it, and the D up that
\* clears it is suppressed.
C16_FlagMarksPendingRelease == suppress_d_up <=> hist.awaitingUp

C16_FlagStep ==
    /\ (suppress_d_up' # suppress_d_up) => DProcessed
    /\ (suppress_d_up /\ DProcessed /\ obs'.edge = "up")
          => (~suppress_d_up' /\ obs'.ret = "suppress")

C16_SuppressingOnlyUntilRelease ==
    []C16_FlagMarksPendingRelease /\ [][C16_FlagStep]_vars

\* C16 witness: the flag is still set after the up of another key and the
\* release of Win: the D up is yet to come.
C16_Witness ==
    /\ KeyObserved /\ obs.nCode = 0 /\ obs.vk = VK_E /\ obs.edge = "up"
    /\ suppress_d_up /\ ~win_down

\* C17: _win_down is true exactly when at least one of the two Win keys is
\* held (its down processed and its own up not yet).
C17_ModifierTracksBothKeys == win_down <=> (hist.lHeld \/ hist.rHeld)

\* a ShowWindow call of the outcome raised, or a rectangle or placement query
\* of a window of the desktop it enumerated did
PerWindowFailure(out) ==
    \/ \E i \in 1..Len(out.calls) : ~out.calls[i].ok
    \/ /\ out.desk # None
       /\ \E k \in 1..Len(out.desk[1]) :
            ~out.desk[1][k].w.rectOk \/ ~out.desk[1][k].w.placeOk

HasCall(calls, op, h) == \E i \in 1..Len(calls) : calls[i].op = op /\ calls[i].hwnd = h

\* C18: a trigger() on the allowed monitor in which a minimize call, a
\* restore call or a window query failed still issues the call for every
\* other window of the sequence and completes the phase change: Idle to
\* Minimized, or Minimized to Idle with minimized_set empty.
C18_FailureStep ==
    (TriggeredOnAllowed /\ PerWindowFailure(obs'.out)) =>
        IF toggled
        THEN /\ ~toggled' /\ minimized' = <<>>
             /\ Len(obs'.out.calls) = Len(minimized)
             /\ \A k \in 1..Len(minimized) :
                   HasCall(obs'.out.calls, "restore", minimized[k])
        ELSE /\ toggled'
             /\ Len(obs'.out.calls) = Len(minimized')
             /\ \A k \in 1..Len(obs'.out.desk[1]) :
                   ToCapture(obs'.out.desk[1][k].w)
                       => HasCall(obs'.out.calls, "minimize", obs'.out.desk[1][k].hwnd)

C18_FailureDoesNotAbort == [][C18_FailureStep]_vars

\* C18 witness: the first of two minimize calls failed, the second was still
\* issued and the phase is Minimized with both windows in the set.
C18_Witness ==
    /\ KeyObserved /\ obs.trig = 1 /\ toggled
    /\ Len(obs.out.calls) = 2 /\ Len(minimized) = 2
    /\ ~obs.out.calls[1].ok /\ obs.out.calls[2].ok
    /\ AllOp(obs.out.calls, "minimize")

\* the positions of the restore calls among the calls of an outcome
RestoreCalls(calls) == {i \in 1..Len(calls) : calls[i].op = "restore"}

\* C20: every restore call targets a window of the minimize calls of the
\* latest Idle -> Minimized transition that has not been restored since: a
\* step that issues restore calls starts in phase Minimized, restores only
\* captured windows, none of them twice, and ends in phase Idle with nothing
\* left to restore, so that the next restore needs a new capture.
C20_RestoreStep ==
    LET calls == obs'.out.calls
    IN  RestoreCalls(calls) # {} =>
            /\ toggled /\ ~toggled'
            /\ \A i \in RestoreCalls(calls) : calls[i].hwnd \in Range(captured)
            /\ \A i, j \in RestoreCalls(calls) :
                  calls[i].hwnd = calls[j].hwnd => i = j
            /\ captured' = <<>> /\ minimized' = <<>>

C20_RestoresOnlyCaptured == [][C20_RestoreStep]_vars

\* C20 witness: exactly one window had been captured, and a trigger() has
\* just restored it and left nothing captured.
C20_Witness ==
    /\ KeyObserved /\ obs.trig = 1 /\ ~toggled
    /\ Len(obs.out.calls) = 1 /\ AllOp(obs.out.calls, "restore")
    /\ captured = <<>>

====
